---- MODULE Spec2Model ----
(***************************************************************************)
(* Timing/validation core of pypulseq/events.py: EventBaseClass, Delay and *)
(* ADC.  Times are integers (multiples of an arbitrary time unit), an      *)
(* instance is a record holding its class and the slots assigned so far,   *)
(* and every method is an operator from the instance (and its arguments)   *)
(* to the exception it raises and the instance it leaves behind.           *)
(***************************************************************************)
EXTENDS Integers, Sequences, FiniteSets, TLC

\* Bounds of the explored inputs.
MaxTime == 3
MaxSamples == 2
MaxRaster == 2

Times == -1..MaxTime
Counts == 0..MaxSamples
Offsets == {0, 1}
RasterTimes == 1..MaxRaster

\* Python's None and a supplied value of an optional argument.
None == <<>>
Some(v) == <<v>>
Optional(S) == {None} \cup {Some(v) : v \in S}

\* The system limits an event reads its raster time from.
Opts == [adc_raster_time : RasterTimes, rf_raster_time : RasterTimes]

\* pypulseq.check_timing.__div_check: a is an integer multiple of b.
div_check(a, b) == a % b = 0

\* Slots of an instance: assignment, presence and read.
Has(self, name) == name \in DOMAIN self
Assign(self, name, v) == (name :> v) @@ self
Slot(self, name) == IF Has(self, name) THEN Some(self[name]) ELSE None

\* Outcome of a call: the exception raised (NoExc on return) and self.
NoExc == "return"
Return(self) == [exc |-> NoExc, self |-> self]
Raise(self, e) == [exc |-> e, self |-> self]

\* The messages of the exceptions the code raises.
ErrDelayNegative == "ValueError: The delay must be positive."
ErrDelayRaster == "ValueError: The delay must be a multiple of the raster time."
ErrNeither == "ValueError: Either dwell or duration must be set."
ErrBoth == "ValueError: Only one of dwell or duration can be set."
ErrNumSamples == "ValueError: Number of samples must be positive."
ErrDuration == "ValueError: Duration must be positive."
ErrDwell == "ValueError: Dwell must be positive."
ErrAdcDelay == "ValueError: Delay must be positive."
ErrTotalDur == "ValueError: The total duration of the ADC event must be greater than or equal to zero."
ErrNoSetter == "AttributeError: property has no setter"
ErrNoAttribute == "AttributeError: object has no attribute"

\* The error classes of the design, as sets of raised exceptions.
RangeError == {ErrDelayNegative, ErrNumSamples, ErrDuration, ErrDwell, ErrAdcDelay, ErrTotalDur}
AlignmentError == {ErrDelayRaster}
ConfigurationError == {ErrNeither, ErrBoth}

\* An instance before __init__ assigned anything, and no instance at all.
New(cls) == [cls |-> cls]
NoObj == [cls |-> "None"]

\* A _calc_duration that computes the duration once and never refreshes it.
Delay_calc_duration_stale(self) ==
  Return(IF Has(self, "_duration") THEN self
         ELSE Assign(self, "_duration", self._delay))

\* Delay._calc_duration
Delay_calc_duration(self) ==
  Return(Assign(self, "_duration", self._delay))

\* ADC._calc_duration
ADC_calc_duration(self) ==
  IF ~Has(self, "_dwell") THEN Raise(self, ErrNoAttribute)
  ELSE LET _total_dur == self._num_samples * self._dwell + self._delay
       IN  IF ~(_total_dur >= 0) THEN Raise(self, ErrTotalDur)
           ELSE Return(Assign(self, "_duration", _total_dur))

\* EventBaseClass._calc_duration, dispatched on the class of self.
calc_duration(self) ==
  IF self.cls = "Delay" THEN Delay_calc_duration(self)
  ELSE ADC_calc_duration(self)

\* EventBaseClass.delay (setter)
delay_setter(self, value) ==
  IF value < 0 THEN Raise(self, ErrDelayNegative)
  ELSE IF ~div_check(value, self._raster_time) THEN Raise(self, ErrDelayRaster)
  ELSE calc_duration(Assign(self, "_delay", value))

\* A num_samples setter that stores the value.
num_samples_setter_stores(self, value) ==
  Return(Assign(self, "_num_samples", value))

\* Delay.num_samples (setter) prints a notice; ADC inherits the read-only
\* property of EventBaseClass.
num_samples_setter(self, value) ==
  IF self.cls = "Delay" THEN Return(self)
  ELSE Raise(self, ErrNoSetter)

\* ADC.freq_offset (setter) and ADC.phase_offset (setter)
freq_offset_setter(self, value) == Return(Assign(self, "_freq_offset", value))
phase_offset_setter(self, value) == Return(Assign(self, "_phase_offset", value))

\* ADC.dwell is a property with a getter only: assigning to it raises.
dwell_setter(self, value) == Raise(self, ErrNoSetter)

\* True division, kept exact as a fraction.
TrueDiv(a, b) == [num |-> a, den |-> b]

\* Delay.__init__
Delay_init(delay, system) ==
  LET s1 == Assign(New("Delay"), "_raster_time", system.rf_raster_time)
      s2 == Assign(s1, "_num_samples", 1)
  IN  delay_setter(s2, delay)

\* The checks with the range of num_samples checked before the
\* dwell/duration selection.
ADC_check_args_range_first(num_samples, delay, dwell, duration) ==
  IF num_samples < 1 THEN ErrNumSamples
  ELSE IF dwell = None /\ duration = None THEN ErrNeither
  ELSE IF dwell # None /\ duration # None THEN ErrBoth
  ELSE IF duration # None /\ duration[1] < 0 THEN ErrDuration
  ELSE IF dwell # None /\ dwell[1] < 0 THEN ErrDwell
  ELSE IF delay < 0 THEN ErrAdcDelay
  ELSE NoExc

\* ADC.__init__: the checks of the arguments, in order.
ADC_check_args(num_samples, delay, dwell, duration) ==
  IF dwell = None /\ duration = None THEN ErrNeither
  ELSE IF dwell # None /\ duration # None THEN ErrBoth
  ELSE IF num_samples < 1 THEN ErrNumSamples
  ELSE IF duration # None /\ duration[1] < 0 THEN ErrDuration
  ELSE IF dwell # None /\ dwell[1] < 0 THEN ErrDwell
  ELSE IF delay < 0 THEN ErrAdcDelay
  ELSE NoExc

\* ADC.__init__: the assignments of the unvalidated fields.
ADC_assign_fields(self, num_samples, delay, freq_offset, phase_offset, system) ==
  LET s1 == Assign(self, "_raster_time", system.adc_raster_time)
      s2 == Assign(s1, "_freq_offset", freq_offset)
      s3 == Assign(s2, "_phase_offset", phase_offset)
      s4 == Assign(s3, "_num_samples", num_samples)
  IN  Assign(s4, "_delay", delay)

\* ADC.__init__: the branch taken when dwell was supplied.
ADC_from_dwell(self, dwell) ==
  IF dwell # None /\ dwell[1] > 0
  THEN ADC_calc_duration(Assign(self, "_dwell", dwell[1]))
  ELSE Return(self)

\* ADC.__init__
ADC_init(num_samples, delay, dwell, duration, freq_offset, phase_offset, system) ==
  LET e == ADC_check_args(num_samples, delay, dwell, duration)
      s0 == New("ADC")
  IN  IF e # NoExc THEN Raise(s0, e)
      ELSE LET s5 == ADC_assign_fields(s0, num_samples, delay, freq_offset, phase_offset, system)
               r == IF duration # None /\ duration[1] > 0
                    THEN dwell_setter(s5, TrueDiv(duration[1], num_samples))
                    ELSE Return(s5)
           IN  IF r.exc # NoExc THEN r ELSE ADC_from_dwell(r.self, dwell)

VARIABLES ev, last
vars == <<ev, last>>

\* The record of a call: its name and arguments, the exception it raised,
\* the instance it worked on as the call left it, and the event as it was
\* before the call.
Call(op, args, r, pre) ==
  [op |-> op, args |-> args, exc |-> r.exc, self |-> r.self, pre |-> pre]

\* A constructor call yields its instance only when __init__ returns.
Bound(r) == IF r.exc = NoExc THEN r.self ELSE NoObj

Init ==
  /\ ev = NoObj
  /\ last = Call("none", [value |-> 0], Return(NoObj), NoObj)

\* The instance's __init__ has not run yet; it runs once.
Unconstructed == last.op = "none"

\* ev = Delay(delay, system)
NewDelay ==
  /\ Unconstructed
  /\ \E delay \in Times, system \in Opts :
       LET r == Delay_init(delay, system)
       IN  /\ ev' = Bound(r)
           /\ last' = Call("Delay", [delay |-> delay], r, ev)

\* ev = ADC(num_samples, delay, dwell, duration, freq_offset, phase_offset, system)
NewADC ==
  /\ Unconstructed
  /\ \E num_samples \in Counts, delay \in Times, dwell \in Optional(Times),
        duration \in Optional(Times), freq_offset \in Offsets,
        phase_offset \in Offsets, system \in Opts :
       LET r == ADC_init(num_samples, delay, dwell, duration, freq_offset, phase_offset, system)
       IN  /\ ev' = Bound(r)
           /\ last' = Call("ADC", [num_samples |-> num_samples, delay |-> delay,
                                   dwell |-> dwell, duration |-> duration], r, ev)

\* ev.delay = value
SetDelay ==
  /\ ev # NoObj
  /\ \E value \in Times :
       LET r == delay_setter(ev, value)
       IN  /\ ev' = r.self
           /\ last' = Call("set_delay", [value |-> value], r, ev)

\* ev.num_samples = value
SetNumSamples ==
  /\ ev # NoObj
  /\ \E value \in Counts :
       LET r == num_samples_setter(ev, value)
       IN  /\ ev' = r.self
           /\ last' = Call("set_num_samples", [value |-> value], r, ev)

\* ev.freq_offset = value
SetFreqOffset ==
  /\ ev.cls = "ADC"
  /\ \E value \in Offsets :
       LET r == freq_offset_setter(ev, value)
       IN  /\ ev' = r.self
           /\ last' = Call("set_freq_offset", [value |-> value], r, ev)

\* ev.phase_offset = value
SetPhaseOffset ==
  /\ ev.cls = "ADC"
  /\ \E value \in Offsets :
       LET r == phase_offset_setter(ev, value)
       IN  /\ ev' = r.self
           /\ last' = Call("set_phase_offset", [value |-> value], r, ev)

Next ==
  \/ NewDelay
  \/ NewADC
  \/ SetDelay
  \/ SetNumSamples
  \/ SetFreqOffset
  \/ SetPhaseOffset

Spec == Init /\ [][Next]_vars

\* The timing fields every event has, and those of an ADC.
TimingFields(cls) ==
  {"_delay", "_duration", "_num_samples", "_raster_time"}
    \cup (IF cls = "ADC" THEN {"_dwell"} ELSE {})

\* A constructor call with exactly one of dwell and duration supplied.
OneSupplied(args) == (args.dwell = None) # (args.duration = None)

\* C1: the delay of every constructed event is non-negative and an integer
\* multiple of the event's raster time.
C1_DelayGridAligned ==
  ev # NoObj /\ Has(ev, "_delay") =>
    /\ ev._delay >= 0
    /\ div_check(ev._delay, ev._raster_time)

\* C2: every constructed ADC has a duration, equal to
\* num_samples * dwell + delay and non-negative.
C2_AdcDuration ==
  ev.cls = "ADC" =>
    /\ Has(ev, "_duration") /\ Has(ev, "_dwell")
    /\ ev._duration = ev._num_samples * ev._dwell + ev._delay
    /\ ev._duration >= 0

\* C3: an ADC constructed from a total duration D > 0, num_samples n >= 1
\* and delay 0 is constructed, with dwell = D / n and duration = D.
C3_DurationRoundTrip ==
  /\ last.op = "ADC"
  /\ last.args.dwell = None /\ last.args.duration # None
  /\ last.args.duration[1] > 0
  /\ last.args.num_samples >= 1 /\ last.args.delay = 0
  => /\ last.exc = NoExc
     /\ Has(ev, "_dwell") /\ Has(ev, "_duration")
     /\ ev._dwell * last.args.num_samples = last.args.duration[1]
     /\ ev._duration = last.args.duration[1]

\* C4: a constructor either raises or yields an instance on which every
\* timing field is defined.
C4_ConstructionAtomic ==
  last.op \in {"Delay", "ADC"} =>
    \/ last.exc # NoExc /\ ev = NoObj
    \/ last.exc = NoExc /\ TimingFields(ev.cls) \subseteq DOMAIN ev

\* C5: a Delay is constructed from every non-negative delay aligned to the
\* RF raster time, and its duration equals its delay from then on.
C5_DelayDurationIsDelay ==
  /\ ev.cls = "Delay" =>
       Has(ev, "_delay") /\ Has(ev, "_duration") /\ ev._duration = ev._delay
  /\ last.op = "Delay" /\ last.args.delay >= 0
       /\ div_check(last.args.delay, last.self._raster_time)
     => last.exc = NoExc /\ ev.cls = "Delay" /\ ev._duration = last.args.delay

\* A state where an accepted mutation changed the delay of a Delay.
C5_Witness ==
  /\ last.op = "set_delay" /\ last.exc = NoExc
  /\ ev.cls = "Delay" /\ ev._delay # last.pre._delay

\* The delay a call validated: the argument of Delay(...) or of the setter.
DelayArg == IF last.op = "Delay" THEN last.args.delay ELSE last.args.value

\* C6: validating a delay v raises a RangeError when v < 0, an
\* AlignmentError when v >= 0 is no multiple of the raster time, and
\* otherwise the call returns with delay = v.
C6_DelayValidation ==
  last.op \in {"Delay", "set_delay"} =>
    IF DelayArg < 0 THEN last.exc \in RangeError
    ELSE IF ~div_check(DelayArg, last.self._raster_time)
         THEN last.exc \in AlignmentError
         ELSE last.exc = NoExc /\ ev._delay = DelayArg

\* C7: constructing an ADC with both or neither of dwell and duration
\* raises a ConfigurationError, whatever the other arguments, and yields no
\* instance.
C7_ConfigurationFirst ==
  last.op = "ADC" /\ ~OneSupplied(last.args) =>
    /\ last.exc \in ConfigurationError
    /\ ev = NoObj
    /\ last.self = New("ADC")

\* A state where the configuration error was raised although num_samples
\* and delay are out of range too.
C7_Witness ==
  /\ last.op = "ADC" /\ ~OneSupplied(last.args)
  /\ last.args.num_samples < 1 /\ last.args.delay < 0
  /\ last.args.dwell # None /\ last.args.dwell[1] < 0
  /\ last.exc = ErrBoth

\* C8: with exactly one of dwell and duration supplied, an out-of-range
\* argument raises a RangeError before any field is assigned, and
\* num_samples = 1 with valid arguments constructs the ADC.
C8_RangeChecks ==
  last.op = "ADC" /\ OneSupplied(last.args) =>
    LET a == last.args
        supplied == IF a.dwell # None THEN a.dwell[1] ELSE a.duration[1]
    IN  /\ a.num_samples < 1 \/ supplied < 0 \/ a.delay < 0 =>
             last.exc \in RangeError /\ last.self = New("ADC") /\ ev = NoObj
        /\ a.num_samples = 1 /\ supplied > 0 /\ a.delay >= 0
             /\ div_check(a.delay, last.self._raster_time)
           => last.exc = NoExc /\ ev.cls = "ADC"

\* C9: setting num_samples on a Delay does not raise and changes nothing;
\* num_samples stays 1.
C9_DelayNumSamplesFixed ==
  /\ ev.cls = "Delay" => ev._num_samples = 1
  /\ last.op = "set_num_samples" /\ last.pre.cls = "Delay" =>
       last.exc = NoExc /\ ev = last.pre

\* A state where a Delay was asked for another num_samples than 1.
C9_Witness ==
  /\ last.op = "set_num_samples" /\ ev.cls = "Delay"
  /\ last.args.value # 1 /\ ev._delay > 0

\* C10: a delay mutation either returns with delay and duration updated, or
\* raises with delay and duration as they were before the call.
C10_SetDelayAtomic ==
  last.op = "set_delay" =>
    \/ /\ last.exc = NoExc
       /\ ev._delay = last.args.value
       /\ calc_duration(ev) = Return(ev)
    \/ /\ last.exc # NoExc
       /\ Slot(ev, "_delay") = Slot(last.pre, "_delay")
       /\ Slot(ev, "_duration") = Slot(last.pre, "_duration")

====
